---- MODULE Spec2Model ----
(***************************************************************************)
(* Model of the security tool registry of src/src/security_tools.rs: the   *)
(* tool map, tag-scoped capability views (list / run), child process       *)
(* execution and the optional concurrency limiter.                         *)
(*                                                                         *)
(* Strings that the code compares ignoring ASCII case (tags) are sequences *)
(* of ASCII codes, so that eq_ignore_ascii_case is computed, not assumed.  *)
(* Strings the code compares exactly (tool ids) are TLA+ strings.          *)
(* Vec<String> tag lists are sets of tags: the code only ever asks         *)
(* iter().any(..) of them, which order and repetition cannot change.       *)
(***************************************************************************)
EXTENDS Integers, Sequences, FiniteSets, TLC

VARIABLES fs, tools, parallel_semaphore, last, calls, runs, observers, pipeline

vars ==
    <<fs, tools, parallel_semaphore, last, calls, runs, observers, pipeline>>

(***************************************************************************)
(* Bounds of the model.                                                    *)
(***************************************************************************)
\* child exit statuses are 0..MaxExitStatus
MaxExitStatus == 1
\* the limiter is built with 0..MaxPermits permits
MaxPermits == 2
\* number of host tasks calling the registry concurrently
NumCallers == 2

(***************************************************************************)
(* Tags, as ASCII code sequences.                                          *)
(***************************************************************************)
\* "all"
TagAll == <<97, 108, 108>>
\* "ALL"
TagAllUpper == <<65, 76, 76>>
\* "dev_tools"
DevTools == <<100, 101, 118, 95, 116, 111, 111, 108, 115>>
\* "Dev_Tools"
DevToolsMixed == <<68, 101, 118, 95, 84, 111, 111, 108, 115>>
\* "web_tools"
WebTools == <<119, 101, 98, 95, 116, 111, 111, 108, 115>>
\* "WEB_TOOLS"
WebToolsUpper == <<87, 69, 66, 95, 84, 79, 79, 76, 83>>

\* tags a tool.json may declare
ToolTagUniverse == {DevTools, WebToolsUpper}
\* tags a capability view may be built with
ViewTagUniverse == {DevTools, DevToolsMixed, WebTools, TagAll, TagAllUpper}

ToolIds == {"portlist", "chkrootkit"}
\* an id no registry of the model holds
GhostId == "ghost"
Categories == {"network", "general"}

\* u8::to_ascii_lowercase
ToAsciiLowercase(c) == IF c \in 65..90 THEN c + 32 ELSE c

\* str::eq_ignore_ascii_case
EqIgnoreAsciiCase(a, b) ==
    /\ Len(a) = Len(b)
    /\ \A i \in 1..Len(a) : ToAsciiLowercase(a[i]) = ToAsciiLowercase(b[i])

(***************************************************************************)
(* JSON parameter values (serde_json::Value), one record shape for all.    *)
(***************************************************************************)
JsonAbsent == [t |-> "absent", s |-> "", a |-> <<>>]
JsonString(x) == [t |-> "string", s |-> x, a |-> <<>>]
JsonNumber(x) == [t |-> "number", s |-> x, a |-> <<>>]
JsonArray(x) == [t |-> "array", s |-> "", a |-> x]

\* Value::as_str
AsStr(v) == IF v.t = "string" THEN <<v.s>> ELSE <<>>

\* params.get("args").and_then(as_array).map(filter_map(as_str)).unwrap_or_default()
RECURSIVE FilterMapAsStr(_)
FilterMapAsStr(arr) ==
    IF arr = <<>> THEN <<>>
    ELSE AsStr(Head(arr)) \o FilterMapAsStr(Tail(arr))

\* the args parse keeping every element of the array, strings or not
ParseArgsKeepingAll(params) ==
    IF params.args.t = "array"
    THEN [i \in 1..Len(params.args.a) |-> params.args.a[i].s] ELSE <<>>

ParseArgs(params) ==
    IF params.args.t = "array" THEN FilterMapAsStr(params.args.a) ELSE <<>>

(***************************************************************************)
(* ToolOutput and Result<ToolOutput>, one record shape for all.            *)
(***************************************************************************)
NoResult ==
    [ok |-> TRUE, success |-> FALSE, content |-> "", error |-> "",
     err_kind |-> "None", available |-> {}]

ToolOutputSuccess(content) ==
    [ok |-> TRUE, success |-> TRUE, content |-> content, error |-> "",
     err_kind |-> "None", available |-> {}]

ToolOutputFailure(msg) ==
    [ok |-> TRUE, success |-> FALSE, content |-> "", error |-> msg,
     err_kind |-> "None", available |-> {}]

ToolOutputFailureWithContent(content, msg) ==
    [ok |-> TRUE, success |-> FALSE, content |-> content, error |-> msg,
     err_kind |-> "None", available |-> {}]

\* Err(Error::InvalidInput(msg))
ErrInvalidInput(msg) ==
    [ok |-> FALSE, success |-> FALSE, content |-> "", error |-> msg,
     err_kind |-> "InvalidInput", available |-> {}]

\* Err(Error::tool_execution(tool_id, "Tool '..' not found. Available tools: [..]"))
ErrToolNotFound(tool_id, keys) ==
    [ok |-> FALSE, success |-> FALSE, content |-> "",
     error |-> "Tool '" \o tool_id \o "' not found. Available tools: ",
     err_kind |-> "ToolExecution", available |-> keys]

MissingToolIdMsg == "Missing 'tool_id' parameter"
NotAvailableMsg(tool_id) ==
    "Tool '" \o tool_id \o "' is not available with current tags"

(***************************************************************************)
(* The registry: tool descriptors and the tag / category queries.          *)
(***************************************************************************)
\* Option<u64> and Option<&str> are sequences of length 0 or 1
None == <<>>

\* a SecurityTool as discover() builds it for the entry with stem `id`
Descriptors(id) ==
    [id : {id}, name : {id}, description : {"Security tool: " \o id},
     category : Categories, tags : SUBSET ToolTagUniverse,
     requires_sudo : {FALSE}, timeout_secs : {None},
     command_path : {"tools/" \o id}]

\* a SecurityTool discovered without sidecar metadata (unwrap_or_default)
DefaultDescriptor(id) ==
    [id |-> id, name |-> id, description |-> "Security tool: " \o id,
     category |-> "general", tags |-> {},
     requires_sudo |-> FALSE, timeout_secs |-> None,
     command_path |-> "tools/" \o id]

\* timeout_secs values a tool.json may declare
TimeoutValues == {5, 30}

\* a SecurityTool whose metadata declares requires_sudo and timeout_secs
DescriptorsCmd(id) ==
    [id : {id}, name : {id}, description : {"Security tool: " \o id},
     category : {"general"}, tags : {{DevTools}},
     requires_sudo : BOOLEAN,
     timeout_secs : {None} \cup {<<t>> : t \in TimeoutValues},
     command_path : {"tools/" \o id}]

\* tools.insert(tool.id.clone(), tool): every key is the id of its descriptor
Registries ==
    UNION {{r \in [S -> UNION {Descriptors(i) : i \in S}] :
               \A k \in S : r[k].id = k} : S \in SUBSET ToolIds}

RegistriesDefault ==
    {[k \in S |-> DefaultDescriptor(k)] : S \in SUBSET ToolIds}

RegistriesCmd ==
    UNION {{r \in [S -> UNION {DescriptorsCmd(i) : i \in S}] :
               \A k \in S : r[k].id = k} : S \in SUBSET ToolIds}

\* self.tools.values()
Values(reg) == {reg[k] : k \in DOMAIN reg}

\* by_tags without the "all" branch
ByTagsNoSentinel(reg, tags) ==
    {tool \in Values(reg) :
        \E tool_tag \in tool.tags :
            \E filter_tag \in tags : EqIgnoreAsciiCase(tool_tag, filter_tag)}

\* by_tags comparing tags with == instead of eq_ignore_ascii_case
ByTagsExactCase(reg, tags) ==
    IF \E t \in tags : EqIgnoreAsciiCase(t, TagAll)
    THEN Values(reg)
    ELSE {tool \in Values(reg) :
            \E tool_tag \in tool.tags : \E filter_tag \in tags : tool_tag = filter_tag}

\* by_tags letting a tool without tags through every filter
ByTagsUntaggedEverywhere(reg, tags) ==
    IF \E t \in tags : EqIgnoreAsciiCase(t, TagAll)
    THEN Values(reg)
    ELSE {tool \in Values(reg) :
            \/ tool.tags = {}
            \/ \E tool_tag \in tool.tags :
                  \E filter_tag \in tags : EqIgnoreAsciiCase(tool_tag, filter_tag)}

\* SecurityToolRegistry::by_tags
ByTags(reg, tags) ==
    IF \E t \in tags : EqIgnoreAsciiCase(t, TagAll)
    THEN Values(reg)
    ELSE {tool \in Values(reg) :
            \E tool_tag \in tool.tags :
                \E filter_tag \in tags : EqIgnoreAsciiCase(tool_tag, filter_tag)}

\* SecurityToolRegistry::by_category
ByCategory(reg, category) == {t \in Values(reg) : t.category = category}

\* String's Ord on tags: byte-wise lexicographic
RECURSIVE LexLess(_, _)
LexLess(a, b) ==
    IF b = <<>> THEN FALSE
    ELSE IF a = <<>> THEN TRUE
    ELSE IF Head(a) # Head(b) THEN Head(a) < Head(b)
    ELSE LexLess(Tail(a), Tail(b))

\* tags.sort(); tags.dedup()
RECURSIVE SortDedup(_)
SortDedup(S) ==
    IF S = {} THEN <<>>
    ELSE LET m == CHOOSE x \in S : \A y \in S : x = y \/ LexLess(x, y)
         IN <<m>> \o SortDedup(S \ {m})

\* SecurityToolRegistry::all_tags
AllTags(reg) == SortDedup(UNION {t.tags : t \in Values(reg)})

\* has_tag comparing tags with == instead of eq_ignore_ascii_case
HasTagExactCase(reg, tool_id, tag) ==
    IF tool_id \in DOMAIN reg
    THEN \E t \in reg[tool_id].tags : t = tag
    ELSE FALSE

\* SecurityToolRegistry::has_tag
HasTag(reg, tool_id, tag) ==
    IF tool_id \in DOMAIN reg
    THEN \E t \in reg[tool_id].tags : EqIgnoreAsciiCase(t, tag)
    ELSE FALSE

(***************************************************************************)
(* Child process execution (SecurityTool::execute).                        *)
(***************************************************************************)
\* what cmd.output() can come back with
Outcomes ==
    [launched : {FALSE}, status : {0}, stdout : {""}, stderr : {""},
     launch_error : {"No such file or directory (os error 2)",
                     "Permission denied (os error 13)"}]
    \cup [launched : {TRUE}, status : 0..MaxExitStatus, stdout : {"", "out"},
          stderr : {"", "err"}, launch_error : {""}]

\* outcomes of a child that writes nothing
QuietOutcomes == {o \in Outcomes : o.stdout = "" /\ o.stderr = ""}

\* the Command with the timeout enforcer wrapped around the elevation wrapper
BuildCommandTimeoutOutside(tool, args) ==
    (IF tool.timeout_secs # None
     THEN <<"timeout", ToString(tool.timeout_secs[1])>> ELSE <<>>)
    \o (IF tool.requires_sudo THEN <<"sudo">> ELSE <<>>)
    \o <<tool.command_path>> \o args

\* the Command built before cmd.output(): program followed by its arguments
BuildCommand(tool, args) ==
    IF tool.requires_sudo
    THEN <<"sudo">>
         \o (IF tool.timeout_secs # None
             THEN <<"timeout", ToString(tool.timeout_secs[1])>> ELSE <<>>)
         \o <<tool.command_path>> \o args
    ELSE (IF tool.timeout_secs # None
          THEN <<"timeout", ToString(tool.timeout_secs[1]), tool.command_path>>
          ELSE <<tool.command_path>>) \o args

\* the content rule without its stderr-only branch
AssembleContentNoStderrOnly(stdout, stderr) ==
    IF stderr # "" THEN stdout \o "\n\nSTDERR:\n" \o stderr
    ELSE stdout

\* the content rule applied to captured stdout and stderr
AssembleContent(stdout, stderr) ==
    IF stdout = "" /\ stderr # "" THEN "STDERR:\n" \o stderr
    ELSE IF stderr # "" THEN stdout \o "\n\nSTDERR:\n" \o stderr
    ELSE stdout

\* ExitStatus::success
StatusSuccess(status) == status = 0

\* the match on cmd.output(), with success demanding a silent stderr too
OutputToResultStderrFails(o) ==
    IF o.launched
    THEN IF StatusSuccess(o.status) /\ o.stderr = ""
         THEN ToolOutputSuccess(AssembleContent(o.stdout, o.stderr))
         ELSE ToolOutputFailureWithContent(
                  AssembleContent(o.stdout, o.stderr),
                  "Tool exited with status: exit status: " \o ToString(o.status))
    ELSE ToolOutputFailure("Failed to execute tool: " \o o.launch_error)

\* the match on cmd.output(), with a launch error swallowed
OutputToResultSwallowsLaunchError(o) ==
    IF o.launched
    THEN IF StatusSuccess(o.status)
         THEN ToolOutputSuccess(AssembleContent(o.stdout, o.stderr))
         ELSE ToolOutputFailureWithContent(
                  AssembleContent(o.stdout, o.stderr),
                  "Tool exited with status: exit status: " \o ToString(o.status))
    ELSE ToolOutputSuccess("")

\* the match on cmd.output()
OutputToResult(o) ==
    IF o.launched
    THEN IF StatusSuccess(o.status)
         THEN ToolOutputSuccess(AssembleContent(o.stdout, o.stderr))
         ELSE ToolOutputFailureWithContent(
                  AssembleContent(o.stdout, o.stderr),
                  "Tool exited with status: exit status: " \o ToString(o.status))
    ELSE ToolOutputFailure("Failed to execute tool: " \o o.launch_error)

(***************************************************************************)
(* What one handler invocation did: its return value, whether it called    *)
(* cmd.output(), the command line, the steps it went through in order and  *)
(* (for list operations) the ids that have an entry in the output.         *)
(***************************************************************************)
Done(result, steps) ==
    [result |-> result, spawned |-> FALSE, argv |-> <<>>, steps |-> steps,
     listed |-> {}]

\* self.tools.get(tool_id)
RegistryGet(reg, tool_id) ==
    IF tool_id \in DOMAIN reg THEN <<reg[tool_id]>> ELSE None

\* the lookup error without the list of known ids
NotFoundNoIds(reg, tool_id) == ErrToolNotFound(tool_id, {})

\* the error execute builds when the lookup fails: it lists self.tools.keys()
NotFound(reg, tool_id) == ErrToolNotFound(tool_id, DOMAIN reg)

\* SecurityToolRegistry::execute
RegistryExecute(reg, tool_id, args, outcome) ==
    LET tool == RegistryGet(reg, tool_id) IN
    IF tool # None
    THEN [result |-> OutputToResult(outcome), spawned |-> TRUE,
          argv |-> BuildCommand(tool[1], args),
          steps |-> <<"registry_get", "spawn">>, listed |-> {}]
    ELSE Done(NotFound(reg, tool_id), <<"registry_get">>)

\* RunSecurityTool::execute reading tool_id with unwrap_or_default()
RunDefaultsToolId(reg, params, outcome) ==
    LET tool_id == AsStr(params.tool_id)
        id == IF tool_id = None THEN "" ELSE tool_id[1]
        r == RegistryExecute(reg, id, ParseArgs(params), outcome)
    IN [r EXCEPT !.steps = <<"get_tool_id">> \o @]

\* RunSecurityTool::execute
RunSecurityToolExecute(reg, params, outcome) ==
    LET tool_id == AsStr(params.tool_id) IN
    IF tool_id = None
    THEN Done(ErrInvalidInput(MissingToolIdMsg), <<"get_tool_id">>)
    ELSE LET r == RegistryExecute(reg, tool_id[1], ParseArgs(params), outcome)
         IN [r EXCEPT !.steps = <<"get_tool_id">> \o @]

\* the membership test asking only whether the view shows anything
IsAllowedNonEmpty(allowed_tools, tool_id) == allowed_tools # {}

\* the membership test of TaggedRunSecurityTool::execute
IsAllowed(allowed_tools, tool_id) == \E t \in allowed_tools : t.id = tool_id

\* TaggedRunSecurityTool::execute returning Err for a tool outside the scope
TaggedRunErrOnDenied(reg, tags, params, outcome) ==
    LET tool_id == AsStr(params.tool_id) IN
    IF tool_id = None
    THEN Done(ErrInvalidInput(MissingToolIdMsg), <<"get_tool_id">>)
    ELSE IF ~(\E t \in ByTags(reg, tags) : t.id = tool_id[1])
    THEN Done([ToolOutputFailure(NotAvailableMsg(tool_id[1]))
                  EXCEPT !.ok = FALSE, !.err_kind = "ToolExecution"],
              <<"get_tool_id", "by_tags">>)
    ELSE LET r == RegistryExecute(reg, tool_id[1], ParseArgs(params), outcome)
         IN [r EXCEPT !.steps = <<"get_tool_id", "by_tags">> \o @]

\* TaggedRunSecurityTool::execute asking the registry for the tool before the
\* scope check
TaggedRunLookupFirst(reg, tags, params, outcome) ==
    LET tool_id == AsStr(params.tool_id) IN
    IF tool_id = None
    THEN Done(ErrInvalidInput(MissingToolIdMsg), <<"get_tool_id">>)
    ELSE IF RegistryGet(reg, tool_id[1]) = None
    THEN Done(NotFound(reg, tool_id[1]), <<"get_tool_id", "registry_get">>)
    ELSE IF ~IsAllowed(ByTags(reg, tags), tool_id[1])
    THEN Done(ToolOutputFailure(NotAvailableMsg(tool_id[1])),
              <<"get_tool_id", "by_tags">>)
    ELSE LET r == RegistryExecute(reg, tool_id[1], ParseArgs(params), outcome)
         IN [r EXCEPT !.steps = <<"get_tool_id", "by_tags">> \o @]

\* TaggedRunSecurityTool::execute
TaggedRunSecurityToolExecute(reg, tags, params, outcome) ==
    LET tool_id == AsStr(params.tool_id) IN
    IF tool_id = None
    THEN Done(ErrInvalidInput(MissingToolIdMsg), <<"get_tool_id">>)
    ELSE IF ~IsAllowed(ByTags(reg, tags), tool_id[1])
    THEN Done(ToolOutputFailure(NotAvailableMsg(tool_id[1])),
              <<"get_tool_id", "by_tags">>)
    ELSE LET r == RegistryExecute(reg, tool_id[1], ParseArgs(params), outcome)
         IN [r EXCEPT !.steps = <<"get_tool_id", "by_tags">> \o @]

\* the category match taking any string for a category
ParseCategoryAnyString(params) == AsStr(params.category)

\* the category match of the list tools
ParseCategory(params) ==
    LET s == AsStr(params.category) IN
    IF s # None /\ s[1] \in {"network", "process", "rootkit", "hardening",
                             "filesystem", "general"}
    THEN s ELSE None

\* TaggedListSecurityTools::execute listing self.registry.tools(), as the
\* untagged ListSecurityTools does
TaggedListUntagged(reg, tags, params) ==
    LET category_filter == ParseCategory(params)
        kept == IF category_filter # None
                THEN ByCategory(reg, category_filter[1])
                ELSE Values(reg)
    IN [result |-> ToolOutputSuccess(
            "Found " \o ToString(Cardinality(kept)) \o " security tools:"),
        spawned |-> FALSE, argv |-> <<>>, steps |-> <<>>,
        listed |-> {t.id : t \in kept}]

\* TaggedListSecurityTools::execute
TaggedListSecurityToolsExecute(reg, tags, params) ==
    LET category_filter == ParseCategory(params)
        by_tags == ByTags(reg, tags)
        kept == IF category_filter # None
                THEN {t \in by_tags : t.category = category_filter[1]}
                ELSE by_tags
    IN IF kept = {}
       THEN Done(ToolOutputSuccess("No security tools found matching tags"),
                 <<"by_tags">>)
       ELSE [result |-> ToolOutputSuccess(
                 "Found " \o ToString(Cardinality(kept)) \o " security tools:"),
             spawned |-> FALSE, argv |-> <<>>, steps |-> <<"by_tags">>,
             listed |-> {t.id : t \in kept}]

\* ListSecurityTools::execute
ListSecurityToolsExecute(reg, params) ==
    LET category_filter == ParseCategory(params)
        kept == IF category_filter # None
                THEN ByCategory(reg, category_filter[1])
                ELSE Values(reg)
    IN IF kept = {}
       THEN Done(ToolOutputSuccess("No security tools found in the registry."),
                 <<>>)
       ELSE [result |-> ToolOutputSuccess(
                 "Found " \o ToString(Cardinality(kept)) \o " security tools:"),
             spawned |-> FALSE, argv |-> <<>>, steps |-> <<>>,
             listed |-> {t.id : t \in kept}]

\* SecurityToolRegistry::by_category, as its caller sees the answer
ByCategoryAnswer(reg, category) ==
    [result |-> NoResult, spawned |-> FALSE, argv |-> <<>>, steps |-> <<>>,
     listed |-> {t.id : t \in ByCategory(reg, category)}]

\* a lookup that takes the tool out of the map (HashMap::remove for get)
TakenOnLookup(reg, tool_id) ==
    [k \in DOMAIN reg \ {tool_id} |-> reg[k]]

\* the tools map after a method that takes &self and was asked about tool_id:
\* `tools` is a plain HashMap field and every method after discover reads it
\* through the shared reference
AfterSharedBorrow(reg, tool_id) == reg

\* TaggedSecurityTools::filtered_tools
FilteredTools(reg, tags) ==
    [result |-> NoResult, spawned |-> FALSE, argv |-> <<>>,
     steps |-> <<"by_tags">>, listed |-> {t.id : t \in ByTags(reg, tags)}]

(***************************************************************************)
(* The concurrency limiter (Option<Arc<Semaphore>>). `max` remembers the   *)
(* permits it was built with.                                              *)
(***************************************************************************)
\* discover(): parallel_semaphore: None
NoSemaphore == [present |-> FALSE, max |-> 0, available |-> 0]

\* with_parallel_execution(max_concurrent)
WithParallelExecution(max_concurrent) ==
    [present |-> TRUE, max |-> max_concurrent, available |-> max_concurrent]

\* a dispatch that takes a permit and forgets it
LimiterAcquireAndForget(sem) ==
    IF sem.present THEN [sem EXCEPT !.available = @ - 1] ELSE sem

\* what SecurityToolRegistry::execute does to the limiter on its way to
\* cmd.output(): nothing, the method never reads parallel_semaphore
LimiterOnDispatch(sem) == sem

\* what SecurityToolRegistry::execute does to the limiter when it returns
LimiterOnReturn(sem) == sem

(***************************************************************************)
(* Discovery (SecurityToolRegistry::discover). File names are sequences of *)
(* one-character strings, so that the suffix, substring, stem and          *)
(* extension operations of the code are computed on them. The declared     *)
(* args of a tool are left out of the descriptor: no operation modelled    *)
(* here reads them.                                                        *)
(***************************************************************************)
\* how many entries the scanned directory holds at most
MaxEntries == 3

\* the String of a sequence of characters
RECURSIVE Join(_)
Join(chars) == IF chars = <<>> THEN "" ELSE Head(chars) \o Join(Tail(chars))

\* str::ends_with
EndsWith(s, suffix) ==
    /\ Len(suffix) <= Len(s)
    /\ SubSeq(s, Len(s) - Len(suffix) + 1, Len(s)) = suffix

\* str::contains
Contains(s, pat) ==
    \E i \in 1..(Len(s) - Len(pat) + 1) : SubSeq(s, i, i + Len(pat) - 1) = pat

\* str::trim_end_matches
RECURSIVE TrimEndMatches(_, _)
TrimEndMatches(s, pat) ==
    IF pat # <<>> /\ EndsWith(s, pat)
    THEN TrimEndMatches(SubSeq(s, 1, Len(s) - Len(pat)), pat)
    ELSE s

\* str::replace(from, " ") for a one-character pattern
ReplaceWithSpace(s, from) ==
    [i \in 1..Len(s) |-> IF s[i] = from THEN " " ELSE s[i]]

\* Path::file_stem of a file name: the part before the last '.', or the whole
\* name when it holds no '.' or only a leading one
FileStem(name) ==
    LET dots == {i \in 1..Len(name) : name[i] = "."} IN
    IF dots = {} THEN name
    ELSE LET last_dot == CHOOSE i \in dots : \A j \in dots : j <= i IN
         IF last_dot = 1 THEN name ELSE SubSeq(name, 1, last_dot - 1)

\* Path::with_extension
WithExtension(name, ext) == FileStem(name) \o <<".">> \o ext

ExtSh == <<".", "s", "h">>
ExtMd == <<".", "m", "d">>
ExtJson == <<".", "j", "s", "o", "n">>
WordJson == <<"j", "s", "o", "n">>
WordSetup == <<"s", "e", "t", "u", "p">>
SuffixMcp == <<"-", "m", "c", "p">>

\* the values of SecurityCategory (serde rename_all = "lowercase")
AllCategories ==
    {"network", "process", "rootkit", "hardening", "filesystem", "general"}

\* what a tool.json holds; absent fields are None
NoFile ==
    [exists |-> FALSE, readable |-> FALSE, parses |-> FALSE, name |-> None,
     description |-> None, category |-> None, tags |-> None,
     requires_sudo |-> None, timeout_secs |-> None]

MetaUnreadable == [NoFile EXCEPT !.exists = TRUE]

MetaGarbage == [NoFile EXCEPT !.exists = TRUE, !.readable = TRUE]

MetaNoName ==
    [NoFile EXCEPT !.exists = TRUE, !.readable = TRUE, !.parses = TRUE,
                   !.description = <<"A scanner">>]

MetaBadCategory ==
    [MetaNoName EXCEPT !.name = <<"Foo Scanner">>, !.category = <<"bogus">>]

MetaMinimal == [MetaNoName EXCEPT !.name = <<"Foo Scanner">>]

MetaFull ==
    [MetaMinimal EXCEPT !.category = <<"network">>, !.tags = <<{DevTools}>>,
                        !.requires_sudo = <<TRUE>>, !.timeout_secs = <<30>>]

\* SecurityToolRegistry::read_metadata: the file must exist, be readable and
\* deserialize as ToolMetadata (name and description are required)
ReadMetadata(file) ==
    IF ~file.exists THEN None
    ELSE IF ~file.readable THEN None
    ELSE IF ~file.parses \/ file.name = None \/ file.description = None
            \/ (file.category # None /\ file.category[1] \notin AllCategories)
    THEN None
    ELSE <<[name |-> file.name[1],
            description |-> file.description[1],
            category |-> IF file.category = None THEN "general"
                         ELSE file.category[1],
            tags |-> IF file.tags = None THEN {} ELSE file.tags[1],
            requires_sudo |-> IF file.requires_sudo = None THEN FALSE
                              ELSE file.requires_sudo[1],
            timeout_secs |-> file.timeout_secs]>>

\* the SecurityTool built from an id, optional metadata and a command path
MakeTool(id, metadata, default_description, command_path) ==
    [id |-> Join(id),
     name |-> IF metadata # None THEN metadata[1].name
              ELSE Join(ReplaceWithSpace(ReplaceWithSpace(id, "-"), "_")),
     description |-> IF metadata # None THEN metadata[1].description
                     ELSE default_description \o Join(id),
     category |-> IF metadata # None THEN metadata[1].category ELSE "general",
     tags |-> IF metadata # None THEN metadata[1].tags ELSE {},
     requires_sudo |-> IF metadata # None THEN metadata[1].requires_sudo
                       ELSE FALSE,
     timeout_secs |-> IF metadata # None THEN metadata[1].timeout_secs
                      ELSE None,
     command_path |-> command_path]

\* the path of an entry of the tools directory
EntryPath(name) == "tools/" \o Join(name)

\* SecurityToolRegistry::discover_mcp_tool
DiscoverMcpTool(e) ==
    IF ~e.has_cargo THEN None
    ELSE LET metadata == ReadMetadata(e.file)
             id == TrimEndMatches(e.name, SuffixMcp)
             command_path ==
                 IF e.built = "release"
                 THEN EntryPath(e.name) \o "/target/release/" \o Join(id)
                 ELSE IF e.built = "debug"
                 THEN EntryPath(e.name) \o "/target/debug/" \o Join(id)
                 ELSE EntryPath(e.name)
         IN <<MakeTool(id, metadata, "MCP security tool: ", command_path)>>

\* the file at `name` in the scanned directory, as read_metadata sees it
Sidecar(entries, name) ==
    IF \E i \in 1..Len(entries) : ~entries[i].err /\ entries[i].name = name
    THEN LET e == entries[CHOOSE i \in 1..Len(entries) :
                              ~entries[i].err /\ entries[i].name = name]
         IN IF e.is_dir THEN MetaUnreadable ELSE e.file
    ELSE NoFile

\* discover_shell_tool without its list of known non-tool files
DiscoverShellToolNoSkip(entries, e) ==
    <<MakeTool(FileStem(e.name),
               ReadMetadata(Sidecar(entries, WithExtension(e.name, WordJson))),
               "Security tool: ", EntryPath(e.name))>>

\* SecurityToolRegistry::discover_shell_tool
DiscoverShellTool(entries, e) ==
    IF EndsWith(e.name, ExtSh) /\ Contains(e.name, WordSetup) THEN None
    ELSE IF EndsWith(e.name, ExtMd) \/ EndsWith(e.name, ExtJson) THEN None
    ELSE <<MakeTool(FileStem(e.name),
                    ReadMetadata(Sidecar(entries, WithExtension(e.name, WordJson))),
                    "Security tool: ", EntryPath(e.name))>>

\* SecurityToolRegistry::is_executable (unix): any of the mode's x bits is set
IsExecutable(e) == e.executable

\* an insert that keeps the descriptor already stored under the id
InsertIfAbsent(map, tool) ==
    [k \in DOMAIN map \cup {tool.id} |->
        IF k \in DOMAIN map THEN map[k] ELSE tool]

\* HashMap::insert(tool.id.clone(), tool)
Insert(map, tool) ==
    [k \in DOMAIN map \cup {tool.id} |-> IF k = tool.id THEN tool ELSE map[k]]

\* HashMap::new()
EmptyRegistry == [k \in {} |-> NoFile]

\* the tool one entry of the scan contributes, if any
DiscoverEntry(entries, e) ==
    IF e.err THEN None
    ELSE IF e.is_dir THEN DiscoverMcpTool(e)
    ELSE IF IsExecutable(e) THEN DiscoverShellTool(entries, e)
    ELSE None

\* the loop of discover over read_dir's entries from the i-th on
RECURSIVE ScanFrom(_, _, _)
ScanFrom(entries, i, map) ==
    IF i > Len(entries) THEN map
    ELSE LET found == DiscoverEntry(entries, entries[i]) IN
         ScanFrom(entries, i + 1,
                  IF found # None THEN Insert(map, found[1]) ELSE map)

\* the loop of discover giving up at the first entry whose metadata file
\* exists but cannot be used
RECURSIVE ScanFromAborting(_, _, _)
ScanFromAborting(entries, i, map) ==
    IF i > Len(entries) THEN map
    ELSE LET e == entries[i]
             file == IF e.err THEN NoFile
                     ELSE IF e.is_dir THEN e.file
                     ELSE Sidecar(entries, WithExtension(e.name, WordJson))
             found == DiscoverEntry(entries, e)
         IN IF found # None /\ file.exists /\ ReadMetadata(file) = None
            THEN EmptyRegistry
            ELSE ScanFromAborting(entries, i + 1,
                     IF found # None THEN Insert(map, found[1]) ELSE map)

DiscoverAborting(dir) ==
    IF dir.status = "ok" THEN ScanFromAborting(dir.entries, 1, EmptyRegistry)
    ELSE EmptyRegistry

\* SecurityToolRegistry::discover: the tool map it builds
Discover(dir) ==
    IF dir.status = "ok" THEN ScanFrom(dir.entries, 1, EmptyRegistry)
    ELSE EmptyRegistry

\* the entries read_dir may yield
NameFooMcp == <<"f", "o", "o", "-", "m", "c", "p">>
NameFooSh == <<"f", "o", "o", ".", "s", "h">>
NameFooJson == <<"f", "o", "o", ".", "j", "s", "o", "n">>
NameSetupSh == <<"s", "e", "t", "u", "p", ".", "s", "h">>
NameNetScan == <<"n", "e", "t", "-", "s", "c", "a", "n", "_", "v", "2">>
NameReadme == <<"R", "E", "A", "D", "M", "E", ".", "m", "d">>
NameBroken == <<"b", "r", "o", "k", "e", "n">>

File(name, executable, file) ==
    [name |-> name, err |-> FALSE, is_dir |-> FALSE, executable |-> executable,
     has_cargo |-> FALSE, built |-> "none", file |-> file]

Directory(name, has_cargo, built, file) ==
    [name |-> name, err |-> FALSE, is_dir |-> TRUE, executable |-> TRUE,
     has_cargo |-> has_cargo, built |-> built, file |-> file]

\* an entry read_dir fails to read (dropped by entries.flatten())
FailedEntry ==
    [name |-> NameBroken, err |-> TRUE, is_dir |-> FALSE, executable |-> FALSE,
     has_cargo |-> FALSE, built |-> "none", file |-> NoFile]

EntryUniverse ==
    {Directory(NameFooMcp, FALSE, "none", NoFile)}
    \cup {Directory(NameFooMcp, TRUE, "none", f) :
              f \in {NoFile, MetaUnreadable, MetaGarbage, MetaNoName, MetaFull}}
    \cup {Directory(NameFooMcp, TRUE, b, MetaMinimal) : b \in {"release", "debug"}}
    \cup {File(NameFooSh, x, MetaGarbage) : x \in BOOLEAN}
    \cup {File(NameFooJson, FALSE, f) :
              f \in {MetaUnreadable, MetaGarbage, MetaNoName, MetaBadCategory,
                     MetaMinimal}}
    \cup {File(NameFooJson, TRUE, MetaFull),
          File(NameSetupSh, TRUE, MetaGarbage),
          File(NameNetScan, TRUE, MetaGarbage),
          File(NameReadme, TRUE, MetaGarbage),
          FailedEntry}

\* read_dir yields each name of the directory once, in no promised order
RECURSIVE Listings(_)
Listings(n) ==
    IF n = 0 THEN {<<>>}
    ELSE LET shorter == Listings(n - 1) IN
         shorter \cup
         {Append(l, e) : l \in {s \in shorter : Len(s) = n - 1},
                         e \in EntryUniverse}

DistinctNames(l) ==
    \A i, j \in 1..Len(l) : i # j => l[i].name # l[j].name

\* the tools directory: missing, unreadable, or a listing
Dirs ==
    {[status |-> s, entries |-> <<>>] : s \in {"missing", "unreadable"}}
    \cup {[status |-> "ok", entries |-> l] :
              l \in {m \in Listings(MaxEntries) : DistinctNames(m)}}

\* the directory once the registry is built: no later operation reads it
DirOutOfView == [status |-> "out_of_view", entries |-> <<>>]

\* SecurityToolRegistry::len and is_empty
RegistryLen(reg) == Cardinality(DOMAIN reg)
RegistryIsEmpty(reg) == DOMAIN reg = {}

(***************************************************************************)
(* Durable run tracking (the `background` module re-exported by lib.rs:    *)
(* BackgroundExecutor, RunId, SeqId, RunStatus, RunEvent, PaginatedEvents).*)
(* A run is a loop execution supervised out of band: it has a status, an   *)
(* event log with per-run sequence numbers, and the position of its loop.  *)
(***************************************************************************)
\* the largest cycle budget an agent configuration asks for
MaxCycles == 2

\* the largest page size a poll asks for
MaxLimit == 2

\* run identifiers in the order submit hands them out
RunIdOrder == <<"run-1", "run-2">>

RunIds == {RunIdOrder[i] : i \in 1..Len(RunIdOrder)}

Observers == {"observer-1"}

\* RunStatus
TerminalStatuses == {"Succeeded", "Failed", "Cancelled"}

\* a run identifier not handed out yet
UnsubmittedRun ==
    [submitted |-> FALSE, status |-> "Pending", events |-> <<>>, next_seq |-> 1,
     phase |-> "not_started", budget |-> 0, cycles |-> 0, trace |-> <<>>,
     outcome |-> "none"]

NoRuns == [r \in RunIds |-> UnsubmittedRun]

\* an observer that has not polled yet
NewObserver(r) ==
    [run |-> r, cursor |-> 0, seen |-> <<>>, polled |-> FALSE, after |-> 0,
     limit |-> 0, page |-> <<>>, status |-> "Pending"]

NoObservers == [o \in Observers |-> NewObserver(RunIdOrder[1])]

\* a sequence counter that is not advanced by an emission
NextSeqReused(n) == n

\* the sequence counter after an emission
NextSeqAfterEmit(n) == n + 1

\* record one event of run r: it takes the run's next sequence number and is
\* appended to the run's log in the same step
Emit(r, run, kind) ==
    [run EXCEPT !.events = Append(@, [run |-> r, seq |-> run.next_seq,
                                      kind |-> kind]),
                !.next_seq = NextSeqAfterEmit(@)]

\* a completion that writes its status whatever the run's status is
StatusOnCompletionOverwriting(status, outcome) == outcome

\* the status after the loop completes with `outcome`: only a running run
\* takes it
StatusOnCompletion(status, outcome) ==
    IF status = "Running" THEN outcome ELSE status

\* the status after cancel: only a run that is not terminal becomes Cancelled
StatusOnCancel(status) ==
    IF status \in TerminalStatuses THEN status ELSE "Cancelled"

\* the loop ends with `outcome`: the termination is recorded and the status
\* set, unless the run was cancelled meanwhile
Complete(r, run, outcome) ==
    LET terminal == IF outcome = "Succeeded" THEN "Success" ELSE "Failure" IN
    IF run.status = "Running"
    THEN [Emit(r, run, "terminated") EXCEPT
              !.status = StatusOnCompletion(run.status, outcome),
              !.phase = "stopped", !.outcome = terminal]
    ELSE [run EXCEPT !.status = StatusOnCompletion(run.status, outcome),
                     !.phase = "stopped", !.outcome = terminal]

\* a step of the ReAct trace: a thought (with or without a selected action) or
\* the observation of a dispatch
Thought(has_action) ==
    [step |-> "thought", action |-> has_action, success |-> FALSE,
     content |-> "", error |-> ""]

Observation(result) ==
    [step |-> "observation", action |-> FALSE, success |-> result.success,
     content |-> result.content, error |-> result.error]

\* a loop that never looks at the run's status
CancelIgnored(status) == FALSE

\* the check at a cycle boundary: was the run cancelled?
CancelObserved(status) == status = "Cancelled"

\* a budget found spent only once one more reasoning step than budgeted was made
BudgetSpentOneLate(cycles, budget) == cycles > budget

\* a budget that is never found spent
BudgetNeverSpent(cycles, budget) == FALSE

\* the cycle budget is spent once `budget` reasoning steps have been made
BudgetSpent(cycles, budget) == cycles >= budget

\* a loop that gives up on the first failed observation
AfterObservationFailFast(r, run, result) ==
    IF result.success
    THEN [run EXCEPT !.trace = Append(@, Observation(result)),
                     !.phase = "boundary"]
    ELSE Complete(r, [run EXCEPT !.trace = Append(@, Observation(result))],
                  "Failed")

\* Observing: the result is appended to the trace and the loop goes on to the
\* next cycle boundary, whatever the success flag says
AfterObservation(r, run, result) ==
    [run EXCEPT !.trace = Append(@, Observation(result)), !.phase = "boundary"]

\* a page that starts at the cursor itself
PollWindowInclusive(events, after, limit) ==
    LET later == SelectSeq(events, LAMBDA e : e.seq >= after) IN
    SubSeq(later, 1, IF Len(later) < limit THEN Len(later) ELSE limit)

\* the page a poll returns: the first `limit` events after `after`, in log order
PollWindow(events, after, limit) ==
    LET later == SelectSeq(events, LAMBDA e : e.seq > after) IN
    SubSeq(later, 1, IF Len(later) < limit THEN Len(later) ELSE limit)

\* the cursor a poll returns: the last sequence number of the page, or the
\* cursor it was given when the page is empty
NextCursor(page, after) ==
    IF page = <<>> THEN after ELSE page[Len(page)].seq

(***************************************************************************)
(* The swarm pipeline of examples/swarm_security_agent.rs: a collector,    *)
(* four analysts and a coordinator run one after the other; each stage's   *)
(* output is kept in `findings` and pasted, truncated, into the prompts of *)
(* later stages. A text is its string and its length in bytes.             *)
(***************************************************************************)
StageOrder ==
    <<"collector", "network", "process", "rootkit", "hardening", "coordinator">>

Stages == {StageOrder[i] : i \in 1..Len(StageOrder)}

StageIndex(stage) == CHOOSE i \in 1..Len(StageOrder) : StageOrder[i] = stage

Text(s, len) == [s |-> s, len |-> len]

NoText == Text("", 0)

\* truncate_str(s, max_len): the first max_len bytes
TruncateStr(t, max_len) ==
    IF t.len <= max_len THEN t ELSE Text("prefix of " \o t.s, max_len)

\* what agent.react_loop returns to main: Ok(output) or Err(e)
LoopResults ==
    {[ok |-> TRUE, text |-> Text("report", 40)],
     [ok |-> TRUE, text |-> Text("long report", 9000)],
     [ok |-> FALSE, text |-> Text("model transport error", 21)]}

\* format!("Collection failed: {}", e) and its siblings
FailureText(stage, e) ==
    IF stage = "collector" THEN Text("Collection failed: " \o e.s, 19 + e.len)
    ELSE IF stage = "coordinator"
    THEN Text("Coordinator failed: " \o e.s, 20 + e.len)
    ELSE Text("Analysis failed: " \o e.s, 17 + e.len)

\* the findings each stage's prompt is built from, with their size budgets
PromptParts(stage) ==
    IF stage = "collector" THEN <<>>
    ELSE IF stage = "network" THEN <<[from |-> "collector", max_len |-> 8000]>>
    ELSE IF stage = "process"
    THEN <<[from |-> "collector", max_len |-> 6000],
           [from |-> "network", max_len |-> 1000]>>
    ELSE IF stage \in {"rootkit", "hardening"}
    THEN <<[from |-> "collector", max_len |-> 8000]>>
    ELSE <<[from |-> "network", max_len |-> 1500],
           [from |-> "process", max_len |-> 1500],
           [from |-> "rootkit", max_len |-> 1500],
           [from |-> "hardening", max_len |-> 1500]>>

\* the prompt of a stage: the format! of its parts
Prompt(stage, findings) ==
    [i \in 1..Len(PromptParts(stage)) |->
        [from |-> PromptParts(stage)[i].from,
         text |-> TruncateStr(findings[PromptParts(stage)[i].from],
                              PromptParts(stage)[i].max_len)]]

\* the observation a successful stage appends to the handoff context
HandoffEntry(stage, output) ==
    IF stage = "collector"
    THEN "[collector] Collected security data from tool executions"
    ELSE "[" \o stage \o "] " \o TruncateStr(output, 500).s

\* main before the collector runs
NewPipeline ==
    [pc |-> 1, status |-> "running",
     findings |-> [s \in Stages |-> NoText],
     failed |-> {},
     executed |-> {},
     prompts |-> [s \in Stages |-> <<>>],
     handoff_context |-> <<>>]

\* no pipeline is running
NoPipeline == [NewPipeline EXCEPT !.pc = 0, !.status = "none"]

(***************************************************************************)
(* Inputs of the handlers.                                                 *)
(***************************************************************************)
ToolIdParams ==
    {JsonAbsent, JsonNumber("7")}
    \cup {JsonString(i) : i \in ToolIds \cup {GhostId}}

ArgsParams ==
    {JsonAbsent, JsonString("--help"),
     JsonArray(<<JsonString("--help"), JsonNumber("1"), JsonString("-v")>>)}

CategoryParams ==
    {JsonAbsent, JsonNumber("7")}
    \cup {JsonString(c) : c \in Categories \cup {"bogus"}}

RunParams ==
    [tool_id : ToolIdParams, args : ArgsParams, category : {JsonAbsent}]

ListParams ==
    [tool_id : {JsonAbsent}, args : {JsonAbsent}, category : CategoryParams]

NoParams == [tool_id |-> JsonAbsent, args |-> JsonAbsent, category |-> JsonAbsent]

NoOutcome ==
    [launched |-> FALSE, status |-> 0, stdout |-> "", stderr |-> "",
     launch_error |-> ""]

Callers == 1..NumCallers

IdleCall ==
    [pc |-> "idle", tool_id |-> "", argv |-> <<>>, outcome |-> NoOutcome,
     result |-> NoResult]

NoCall ==
    [op |-> "none", tags |-> {}, params |-> NoParams, outcome |-> NoOutcome,
     exec |-> Done(NoResult, <<>>), has_tag |-> FALSE, all_tags |-> <<>>]

\* the record of one completed handler invocation
Record(op, tags, params, outcome, exec) ==
    [op |-> op, tags |-> tags, params |-> params,
     outcome |-> IF exec.spawned THEN outcome ELSE NoOutcome, exec |-> exec,
     has_tag |-> FALSE, all_tags |-> <<>>]

(***************************************************************************)
(* Spec: one agent at a time calls the tools of a capability view, or the  *)
(* registry directly, on a registry built by discover().                   *)
(***************************************************************************)
Init ==
    /\ fs = DirOutOfView
    /\ tools \in Registries
    /\ parallel_semaphore = NoSemaphore
    /\ last = NoCall
    /\ calls = [c \in Callers |-> IdleCall]
    /\ pipeline = NoPipeline
    /\ runs = NoRuns
    /\ observers = NoObservers

\* the tool id a call names, "" when it names none
IdOf(params) ==
    IF AsStr(params.tool_id) = None THEN "" ELSE AsStr(params.tool_id)[1]

TaggedRun ==
    /\ last.op = "none"
    /\ \E tags \in SUBSET ViewTagUniverse, params \in RunParams, o \in Outcomes :
            /\ last' = Record("tagged_run", tags, params, o,
                              TaggedRunSecurityToolExecute(tools, tags, params, o))
            /\ tools' = AfterSharedBorrow(tools, IdOf(params))
    /\ UNCHANGED <<fs, parallel_semaphore, calls, runs, observers, pipeline>>

TaggedList ==
    /\ last.op = "none"
    /\ \E tags \in SUBSET ViewTagUniverse, params \in ListParams :
            last' = Record("tagged_list", tags, params, NoOutcome,
                           TaggedListSecurityToolsExecute(tools, tags, params))
    /\ tools' = AfterSharedBorrow(tools, "")
    /\ UNCHANGED <<fs, parallel_semaphore, calls, runs, observers, pipeline>>

List ==
    /\ last.op = "none"
    /\ \E params \in ListParams :
            last' = Record("list", {}, params, NoOutcome,
                           ListSecurityToolsExecute(tools, params))
    /\ tools' = AfterSharedBorrow(tools, "")
    /\ UNCHANGED <<fs, parallel_semaphore, calls, runs, observers, pipeline>>

\* TaggedSecurityTools::filtered_tools, i.e. registry.by_tags(allowed_tags)
Filtered ==
    /\ last.op = "none"
    /\ \E tags \in SUBSET ViewTagUniverse :
            last' = Record("filtered_tools", tags, NoParams, NoOutcome,
                           FilteredTools(tools, tags))
    /\ tools' = AfterSharedBorrow(tools, "")
    /\ UNCHANGED <<fs, parallel_semaphore, calls, runs, observers, pipeline>>

ByCategoryQuery ==
    /\ last.op = "none"
    /\ \E c \in Categories :
            last' = Record("by_category", {},
                           [NoParams EXCEPT !.category = JsonString(c)],
                           NoOutcome, ByCategoryAnswer(tools, c))
    /\ tools' = AfterSharedBorrow(tools, "")
    /\ UNCHANGED <<fs, parallel_semaphore, calls, runs, observers, pipeline>>

HasTagQuery ==
    /\ last.op = "none"
    /\ \E id \in ToolIds \cup {GhostId}, tag \in ViewTagUniverse :
            /\ last' = [Record("has_tag", {tag},
                               [NoParams EXCEPT !.tool_id = JsonString(id)],
                               NoOutcome, Done(NoResult, <<>>))
                           EXCEPT !.has_tag = HasTag(tools, id, tag)]
            /\ tools' = AfterSharedBorrow(tools, id)
    /\ UNCHANGED <<fs, parallel_semaphore, calls, runs, observers, pipeline>>

AllTagsQuery ==
    /\ last.op = "none"
    /\ last' = [Record("all_tags", {}, NoParams, NoOutcome, Done(NoResult, <<>>))
                   EXCEPT !.all_tags = AllTags(tools)]
    /\ tools' = AfterSharedBorrow(tools, "")
    /\ UNCHANGED <<fs, parallel_semaphore, calls, runs, observers, pipeline>>

Run ==
    /\ last.op = "none"
    /\ \E params \in RunParams, o \in Outcomes :
            /\ last' = Record("run", {}, params, o,
                              RunSecurityToolExecute(tools, params, o))
            /\ tools' = AfterSharedBorrow(tools, IdOf(params))
    /\ UNCHANGED <<fs, parallel_semaphore, calls, runs, observers, pipeline>>

Execute ==
    /\ last.op = "none"
    /\ \E id \in ToolIds \cup {GhostId}, o \in Outcomes :
            /\ last' = Record("execute", {},
                              [NoParams EXCEPT
                                  !.tool_id = JsonString(id),
                                  !.args = JsonArray(<<JsonString("--help")>>)], o,
                              RegistryExecute(tools, id, <<"--help">>, o))
            /\ tools' = AfterSharedBorrow(tools, id)
    /\ UNCHANGED <<fs, parallel_semaphore, calls, runs, observers, pipeline>>

\* the caller takes the result; the next call starts from a clean record
Consume ==
    /\ last.op # "none"
    /\ last' = NoCall
    /\ UNCHANGED <<fs, tools, parallel_semaphore, calls, runs, observers, pipeline>>

Next ==
    \/ TaggedRun \/ TaggedList \/ List \/ Filtered \/ ByCategoryQuery
    \/ HasTagQuery \/ AllTagsQuery \/ Run \/ Execute \/ Consume

Spec == Init /\ [][Next]_vars

(***************************************************************************)
(* SpecCmd: the same calls on a registry whose tools declare elevation and *)
(* timeouts.                                                               *)
(***************************************************************************)
InitCmd ==
    /\ fs = DirOutOfView
    /\ tools \in RegistriesCmd
    /\ parallel_semaphore = NoSemaphore
    /\ last = NoCall
    /\ calls = [c \in Callers |-> IdleCall]
    /\ pipeline = NoPipeline
    /\ runs = NoRuns
    /\ observers = NoObservers

SpecCmd == InitCmd /\ [][Next]_vars

(***************************************************************************)
(* SpecPar: NumCallers host tasks call SecurityToolRegistry::execute on a  *)
(* shared registry (JoinSet::spawn in concurrent_agent_tools.rs). A call   *)
(* that reaches cmd.output() blocks there until the child exits.           *)
(***************************************************************************)
InitPar ==
    /\ fs = DirOutOfView
    /\ tools \in RegistriesDefault
    /\ parallel_semaphore \in
           {NoSemaphore} \cup {WithParallelExecution(n) : n \in 0..MaxPermits}
    /\ last = NoCall
    /\ calls = [c \in Callers |-> IdleCall]
    /\ pipeline = NoPipeline
    /\ runs = NoRuns
    /\ observers = NoObservers

InFlight == {c \in Callers : calls[c].pc = "running"}

\* execute up to the point where cmd.output() has spawned the child
ExecuteBegin(c) ==
    /\ calls[c].pc # "running"
    /\ \E id \in ToolIds \cup {GhostId} :
         LET tool == RegistryGet(tools, id) IN
         /\ calls' = [calls EXCEPT ![c] =
             IF tool # None
             THEN [pc |-> "running", tool_id |-> id,
                   argv |-> BuildCommand(tool[1], <<"--help">>),
                   outcome |-> NoOutcome, result |-> NoResult]
             ELSE [pc |-> "done", tool_id |-> id, argv |-> <<>>,
                   outcome |-> NoOutcome, result |-> NotFound(tools, id)]]
         /\ tools' = AfterSharedBorrow(tools, id)
    /\ parallel_semaphore' = LimiterOnDispatch(parallel_semaphore)
    /\ UNCHANGED <<fs, last, runs, observers, pipeline>>

\* the child exits (or failed to launch) and execute returns
ExecuteFinish(c) ==
    /\ calls[c].pc = "running"
    /\ \E o \in QuietOutcomes :
         calls' = [calls EXCEPT ![c] =
             [@ EXCEPT !.pc = "done", !.outcome = o,
                       !.result = OutputToResult(o)]]
    /\ tools' = AfterSharedBorrow(tools, calls[c].tool_id)
    /\ parallel_semaphore' = LimiterOnReturn(parallel_semaphore)
    /\ UNCHANGED <<fs, last, runs, observers, pipeline>>

NextPar == \E c \in Callers : ExecuteBegin(c) \/ ExecuteFinish(c)

SpecPar == InitPar /\ [][NextPar]_vars

(***************************************************************************)
(* Vocabulary of the properties, stated without the operators above.       *)
(***************************************************************************)
\* a tag with its letters A..Z folded to a..z
Fold(tag) ==
    [i \in DOMAIN tag |->
        IF tag[i] >= 65 /\ tag[i] <= 90 THEN tag[i] + 32 ELSE tag[i]]

SameIgnoringCase(a, b) == Fold(a) = Fold(b)

ContainsSentinel(tags) == \E t \in tags : Fold(t) = TagAll

SharesATag(tool_tags, tags) ==
    \E a \in tool_tags : \E b \in tags : SameIgnoringCase(a, b)

\* the id a run request names, when it names one
HasStringId == last.params.tool_id.t = "string"
RequestedId == last.params.tool_id.s

\* the tagged run tool refused the request as outside the view's tag scope
ScopeRejection(exec, id) ==
    /\ exec.result.ok
    /\ ~exec.result.success
    /\ exec.result.error = NotAvailableMsg(id)

(***************************************************************************)
(* C1: a tagged run of a registered tool through a view whose tags share   *)
(* no tag (ignoring case) with the tool and hold no sentinel "all" returns *)
(* a failed result and never reaches cmd.output().                         *)
(***************************************************************************)
C1_Case ==
    /\ last.op = "tagged_run"
    /\ HasStringId
    /\ RequestedId \in DOMAIN tools
    /\ ~ContainsSentinel(last.tags)
    /\ ~SharesATag(tools[RequestedId].tags, last.tags)

C1_OutOfScopeRunRejected ==
    C1_Case =>
        /\ last.exec.result.ok
        /\ ~last.exec.result.success
        /\ ~last.exec.spawned
        /\ last.exec.argv = <<>>

\* a tagged tool is refused by a non-empty view that shows another tool
C1_Witness ==
    /\ C1_Case
    /\ tools[RequestedId].tags # {}
    /\ \E other \in DOMAIN tools :
           other # RequestedId /\ SharesATag(tools[other].tags, last.tags)
    /\ ~last.exec.spawned

(***************************************************************************)
(* C2: the tagged list (no category filter) and the tagged run agree on    *)
(* membership: an id has an entry in the list output exactly when run does *)
(* not refuse it as outside the tag scope.                                 *)
(***************************************************************************)
C2_RunParams(id) == [NoParams EXCEPT !.tool_id = JsonString(id)]

C2_ListRunAgree ==
    /\ (last.op = "tagged_run" /\ HasStringId) =>
           (ScopeRejection(last.exec, RequestedId)
              <=> RequestedId \notin
                    TaggedListSecurityToolsExecute(tools, last.tags, NoParams).listed)
    /\ (last.op = "tagged_list" /\ last.params.category = JsonAbsent) =>
           \A id \in ToolIds \cup {GhostId} :
               id \in last.exec.listed
                 <=> \A o \in Outcomes :
                       ~ScopeRejection(
                           TaggedRunSecurityToolExecute(
                               tools, last.tags, C2_RunParams(id), o), id)

\* a list that shows one registered tool and hides the other
C2_Witness ==
    /\ last.op = "tagged_list"
    /\ last.params.category = JsonAbsent
    /\ last.exec.listed # {}
    /\ last.exec.listed # DOMAIN tools

(***************************************************************************)
(* C3: with a limiter of N permits, at most N child processes of the       *)
(* registry are in flight at once. (SecurityToolRegistry::execute never    *)
(* acquires a permit, so the bound is not enforced.)                       *)
(***************************************************************************)
C3_AtMostNInFlight ==
    parallel_semaphore.present =>
        Cardinality(InFlight) <= parallel_semaphore.max

C5_SentinelShowsAll ==
    /\ (last.op = "filtered_tools" /\ ContainsSentinel(last.tags)) =>
           last.exec.listed = DOMAIN tools
    /\ (last.op = "tagged_list" /\ last.params.category = JsonAbsent
          /\ ContainsSentinel(last.tags)) =>
           last.exec.listed = DOMAIN tools

\* "all" next to another tag shows an untagged tool and a tagged one
C5_Witness ==
    /\ last.op = "filtered_tools"
    /\ TagAll \in last.tags
    /\ WebTools \in last.tags
    /\ DOMAIN tools = ToolIds
    /\ \E id \in DOMAIN tools : tools[id].tags = {}
    /\ \E id \in DOMAIN tools : tools[id].tags = {DevTools}
    /\ last.exec.listed = ToolIds

(***************************************************************************)
(* C6: without the sentinel, a tool is in by_tags exactly when one of its  *)
(* tags equals one of the requested tags ignoring letter case.             *)
(***************************************************************************)
C6_CaseInsensitiveAnyMatch ==
    (last.op = "filtered_tools" /\ ~ContainsSentinel(last.tags)) =>
        last.exec.listed =
            {id \in DOMAIN tools : SharesATag(tools[id].tags, last.tags)}

\* a view built with "Dev_Tools" shows the tool tagged "dev_tools" only
C6_Witness ==
    /\ last.op = "filtered_tools"
    /\ last.tags = {DevToolsMixed}
    /\ DOMAIN tools = ToolIds
    /\ \E id \in DOMAIN tools :
         tools[id].tags = {DevTools} /\ last.exec.listed = {id}

(***************************************************************************)
(* C7: execute on an id the registry does not hold returns the "not found" *)
(* error listing exactly the registry's ids, and spawns nothing.           *)
(***************************************************************************)
C7_Case ==
    /\ last.op \in {"execute", "run"}
    /\ HasStringId
    /\ RequestedId \notin DOMAIN tools

C7_NotFoundListsIds ==
    C7_Case =>
        /\ ~last.exec.result.ok
        /\ last.exec.result.err_kind = "ToolExecution"
        /\ last.exec.result.error =
               "Tool '" \o RequestedId \o "' not found. Available tools: "
        /\ last.exec.result.available = DOMAIN tools
        /\ ~last.exec.spawned

\* a missing id asked of a registry that holds both tools
C7_Witness ==
    /\ C7_Case
    /\ last.op = "execute"
    /\ DOMAIN tools = ToolIds
    /\ last.exec.result.available = ToolIds

(***************************************************************************)
(* C8: a registered tool outside the caller's tag scope resolves, through  *)
(* the tagged run, to Ok with success = false; a run returns an error      *)
(* value only for a missing tool_id or a tool absent from the registry.    *)
(***************************************************************************)
C8_Denied ==
    /\ last.op = "tagged_run"
    /\ HasStringId
    /\ RequestedId \in DOMAIN tools
    /\ ~ContainsSentinel(last.tags)
    /\ ~SharesATag(tools[RequestedId].tags, last.tags)

C8_DeniedIsPlainFailure ==
    /\ C8_Denied =>
           /\ last.exec.result.ok
           /\ last.exec.result.err_kind = "None"
           /\ ~last.exec.result.success
    /\ (last.op \in {"tagged_run", "run"} /\ ~last.exec.result.ok) =>
           \/ ~HasStringId
           \/ RequestedId \notin DOMAIN tools

\* an untagged tool asked through an empty view
C8_Witness ==
    /\ C8_Denied
    /\ last.tags = {}
    /\ tools[RequestedId].tags = {}
    /\ last.exec.result.ok
    /\ ~last.exec.result.success

(***************************************************************************)
(* C9: a run request without a string tool_id is refused with InvalidInput *)
(* before any capability check or registry lookup, spawning nothing, by    *)
(* the tagged and the untagged run tool alike.                             *)
(***************************************************************************)
C9_Case ==
    /\ last.op \in {"tagged_run", "run"}
    /\ ~HasStringId

C9_MissingToolIdIsInvalidInput ==
    C9_Case =>
        /\ ~last.exec.result.ok
        /\ last.exec.result.err_kind = "InvalidInput"
        /\ last.exec.steps = <<"get_tool_id">>
        /\ ~last.exec.spawned

\* a numeric tool_id given to the tagged run of an all-seeing view
C9_Witness ==
    /\ C9_Case
    /\ last.op = "tagged_run"
    /\ last.params.tool_id.t = "number"
    /\ TagAll \in last.tags
    /\ DOMAIN tools # {}
    /\ last.exec.result.err_kind = "InvalidInput"

(***************************************************************************)
(* C10: the success flag is true exactly when the child exits with status  *)
(* zero, whatever it wrote to stderr; on a non-zero exit the result keeps  *)
(* the captured content, with the failure flag and a message naming the    *)
(* exit status.                                                            *)
(***************************************************************************)
C10_SuccessIffStatusZero ==
    last.exec.spawned =>
        /\ last.exec.result.ok
        /\ last.exec.result.success
             <=> (last.outcome.launched /\ last.outcome.status = 0)
        /\ (last.outcome.launched /\ last.outcome.status # 0) =>
             /\ last.exec.result.content =
                    AssembleContent(last.outcome.stdout, last.outcome.stderr)
             /\ last.exec.result.error =
                    "Tool exited with status: exit status: "
                        \o ToString(last.outcome.status)

\* a child that wrote to stdout only and exited non-zero
C10_Witness ==
    /\ last.exec.spawned
    /\ last.outcome.launched
    /\ last.outcome.status # 0
    /\ last.outcome.stdout # ""
    /\ last.outcome.stderr = ""
    /\ ~last.exec.result.success
    /\ last.exec.result.content = last.outcome.stdout

(***************************************************************************)
(* C11: content assembly. Empty stdout with non-empty stderr gives the     *)
(* labeled stderr only; both non-empty give stdout followed by the labeled *)
(* stderr block; empty stderr gives stdout alone (possibly empty).         *)
(***************************************************************************)
C11_Case == last.exec.spawned /\ last.outcome.launched

C11_ContentAssembly ==
    C11_Case =>
        LET out == last.outcome.stdout
            err == last.outcome.stderr
            content == last.exec.result.content
        IN /\ (out = "" /\ err # "") => content = "STDERR:\n" \o err
           /\ (out # "" /\ err # "") => content = out \o "\n\nSTDERR:\n" \o err
           /\ err = "" => content = out

\* a child that wrote to stderr only
C11_Witness ==
    /\ C11_Case
    /\ last.outcome.stdout = ""
    /\ last.outcome.stderr = "err"
    /\ last.exec.result.content = "STDERR:\nerr"

(***************************************************************************)
(* C12: a failure to launch the child is an Ok result with success = false *)
(* whose message carries the raw launch error; it differs from the message *)
(* of every non-zero exit and is never a success or an error value.        *)
(***************************************************************************)
C12_Case == last.exec.spawned /\ ~last.outcome.launched

C12_LaunchFailureReported ==
    C12_Case =>
        /\ last.exec.result.ok
        /\ last.exec.result.err_kind = "None"
        /\ ~last.exec.result.success
        /\ last.exec.result.error =
               "Failed to execute tool: " \o last.outcome.launch_error
        /\ \A status \in 0..MaxExitStatus :
               last.exec.result.error #
                   "Tool exited with status: exit status: " \o ToString(status)

\* the tool's binary cannot be executed
C12_Witness ==
    /\ C12_Case
    /\ last.op = "tagged_run"
    /\ last.outcome.launch_error = "Permission denied (os error 13)"
    /\ last.exec.result.error =
           "Failed to execute tool: Permission denied (os error 13)"

(***************************************************************************)
(* C13: the command line is decided by the elevation flag and the timeout: *)
(* [sudo, timeout, T, path, args..], [sudo, path, args..],                 *)
(* [timeout, T, path, args..] or [path, args..].                           *)
(***************************************************************************)
C13_Case == last.exec.spawned /\ HasStringId /\ RequestedId \in DOMAIN tools

C13_CommandLine ==
    C13_Case =>
        LET tool == tools[RequestedId]
            elevated == tool.requires_sudo
            timed == tool.timeout_secs # None
            T == ToString(tool.timeout_secs[1])
            tail == <<tool.command_path>> \o ParseArgs(last.params)
        IN /\ (elevated /\ timed) =>
                 last.exec.argv = <<"sudo", "timeout", T>> \o tail
           /\ (elevated /\ ~timed) => last.exec.argv = <<"sudo">> \o tail
           /\ (~elevated /\ timed) => last.exec.argv = <<"timeout", T>> \o tail
           /\ (~elevated /\ ~timed) => last.exec.argv = tail

\* an elevated tool with a 30 second limit run with arguments
C13_Witness ==
    /\ C13_Case
    /\ tools[RequestedId].requires_sudo
    /\ tools[RequestedId].timeout_secs = <<30>>
    /\ last.exec.argv =
           <<"sudo", "timeout", "30", "tools/" \o RequestedId, "--help", "-v">>

(***************************************************************************)
(* C26: the arguments reaching the child are exactly the caller's strings, *)
(* in the caller's order, each a vector element of its own after the       *)
(* wrapper and the tool path; elements of the args array that are not      *)
(* strings are dropped, and a missing or non-array args gives no arguments.*)
(***************************************************************************)
IsJsonString(v) == v.t = "string"

\* the strings of the caller's args array, in the caller's order
SuppliedStrings(params) ==
    IF params.args.t = "array"
    THEN LET strings == SelectSeq(params.args.a, IsJsonString)
         IN [i \in 1..Len(strings) |-> strings[i].s]
    ELSE <<>>

WrapperWords == {"sudo", "timeout"} \cup {ToString(t) : t \in TimeoutValues}

C26_Case ==
    /\ last.op \in {"tagged_run", "run"}
    /\ last.exec.spawned

C26_ArgsVerbatim ==
    C26_Case =>
        \E p \in 1..Len(last.exec.argv) :
            /\ last.exec.argv[p] = tools[RequestedId].command_path
            /\ \A i \in 1..(p - 1) : last.exec.argv[i] \in WrapperWords
            /\ SubSeq(last.exec.argv, p + 1, Len(last.exec.argv))
                   = SuppliedStrings(last.params)

\* an elevated tool run through a view with args ["--help", 1, "-v"]: the child
\* gets "--help" and "-v" after the path, and the number is gone
C26_Witness ==
    /\ C26_Case
    /\ last.op = "tagged_run"
    /\ last.params.args =
           JsonArray(<<JsonString("--help"), JsonNumber("1"), JsonString("-v")>>)
    /\ tools[RequestedId].requires_sudo
    /\ tools[RequestedId].timeout_secs = None
    /\ last.exec.argv = <<"sudo", tools[RequestedId].command_path, "--help", "-v">>

(***************************************************************************)
(* C27: the tagged list with a recognized category shows exactly the tools *)
(* that are in the view's tag scope and of that category; with an absent   *)
(* or unrecognized category value it shows the whole tag scope; it never   *)
(* returns an error.                                                       *)
(***************************************************************************)
RecognizedCategories ==
    {"network", "process", "rootkit", "hardening", "filesystem", "general"}

\* the ids of the registered tools a view with these tags shows
InTagScope(tags) ==
    {id \in DOMAIN tools :
        ContainsSentinel(tags) \/ SharesATag(tools[id].tags, tags)}

HasRecognizedCategory ==
    /\ last.params.category.t = "string"
    /\ last.params.category.s \in RecognizedCategories

C27_TagsAndCategory ==
    last.op = "tagged_list" =>
        /\ last.exec.result.ok
        /\ last.exec.result.success
        /\ HasRecognizedCategory =>
              last.exec.listed =
                  {id \in InTagScope(last.tags) :
                      tools[id].category = last.params.category.s}
        /\ ~HasRecognizedCategory => last.exec.listed = InTagScope(last.tags)

\* two tools in the tag scope, of different categories: the list for "network"
\* shows one of them
C27_Witness ==
    /\ last.op = "tagged_list"
    /\ ~ContainsSentinel(last.tags)
    /\ last.params.category = JsonString("network")
    /\ Cardinality(InTagScope(last.tags)) = 2
    /\ Cardinality(last.exec.listed) = 1
    /\ DOMAIN tools \ InTagScope(last.tags) = {}

(***************************************************************************)
(* C28: a tool with an empty tag set is listed and run only through a view *)
(* whose tags contain the sentinel "all"; every other view, the one with   *)
(* an empty tag set included, neither lists it nor runs it.                *)
(***************************************************************************)
Untagged == {id \in DOMAIN tools : tools[id].tags = {}}

C28_UntaggedOnlyThroughSentinel ==
    /\ last.op = "tagged_list" =>
          \A id \in Untagged :
              /\ id \in last.exec.listed => ContainsSentinel(last.tags)
              /\ (ContainsSentinel(last.tags) /\ ~HasRecognizedCategory)
                    => id \in last.exec.listed
    /\ (last.op = "tagged_run" /\ HasStringId /\ RequestedId \in Untagged) =>
          /\ last.exec.spawned <=> ContainsSentinel(last.tags)
          /\ ~ContainsSentinel(last.tags) =>
                ScopeRejection(last.exec, RequestedId)

\* a view with an empty tag set refuses to run a tool that has no tags
C28_Witness ==
    /\ last.op = "tagged_run"
    /\ HasStringId
    /\ RequestedId \in Untagged
    /\ last.tags = {}
    /\ ScopeRejection(last.exec, RequestedId)
    /\ ~last.exec.spawned

(***************************************************************************)
(* C29: through a tagged run whose tags lack the sentinel, an id that is   *)
(* not in the registry gets the same not-available failed result as a      *)
(* registered tool outside the scope; the tagged run never returns the     *)
(* registry's "not found" error, since every id that passes the scope      *)
(* check is registered.                                                    *)
(***************************************************************************)
\* the registry's lookup error, whatever ids it lists
IsNotFoundError(result, id) ==
    /\ ~result.ok
    /\ result.err_kind = "ToolExecution"
    /\ result.error = "Tool '" \o id \o "' not found. Available tools: "

C29_Case ==
    /\ last.op = "tagged_run"
    /\ HasStringId
    /\ RequestedId \notin DOMAIN tools
    /\ ~ContainsSentinel(last.tags)

C29_AbsentIdIsDenied ==
    /\ C29_Case =>
          /\ ScopeRejection(last.exec, RequestedId)
          /\ ~last.exec.spawned
    /\ (last.op = "tagged_run" /\ HasStringId) =>
          /\ ~IsNotFoundError(last.exec.result, RequestedId)
          /\ ~ScopeRejection(last.exec, RequestedId)
                => RequestedId \in DOMAIN tools

\* an unregistered id asked of a view that does show a registered tool
C29_Witness ==
    /\ C29_Case
    /\ RequestedId = GhostId
    /\ InTagScope(last.tags) # {}
    /\ last.exec.result = ToolOutputFailure(NotAvailableMsg(GhostId))

(***************************************************************************)
(* C30: for a registered id and a tag that is not the sentinel "all" in    *)
(* any casing, has_tag(id, tag) is true exactly when the tool is a member  *)
(* of by_tags([tag]); has_tag is false for an id the registry lacks.       *)
(***************************************************************************)
\* the tag a has_tag query asked about
AskedTag == CHOOSE t \in last.tags : TRUE

C30_HasTagAgreesWithByTags ==
    (last.op = "has_tag") =>
        /\ RequestedId \notin DOMAIN tools => ~last.has_tag
        /\ (RequestedId \in DOMAIN tools /\ ~ContainsSentinel({AskedTag})) =>
              (last.has_tag <=> tools[RequestedId] \in ByTags(tools, {AskedTag}))

\* has_tag answers true for a tag written in another casing than the tool's
C30_Witness ==
    /\ last.op = "has_tag"
    /\ RequestedId \in DOMAIN tools
    /\ ~ContainsSentinel({AskedTag})
    /\ AskedTag \notin tools[RequestedId].tags
    /\ last.has_tag
    /\ \E other \in DOMAIN tools : tools[other] \notin ByTags(tools, {AskedTag})

(***************************************************************************)
(* SpecDisc: construction of the registry from a tools directory.          *)
(***************************************************************************)
InitDisc ==
    /\ fs \in Dirs
    /\ tools = EmptyRegistry
    /\ parallel_semaphore = NoSemaphore
    /\ last = NoCall
    /\ calls = [c \in Callers |-> IdleCall]
    /\ pipeline = NoPipeline
    /\ runs = NoRuns
    /\ observers = NoObservers

\* SecurityToolRegistry::discover(tools_dir)
DiscoverCall ==
    /\ last.op = "none"
    /\ tools' = Discover(fs)
    /\ last' = [NoCall EXCEPT !.op = "discover"]
    /\ UNCHANGED <<fs, parallel_semaphore, calls, runs, observers, pipeline>>

NextDisc == DiscoverCall

SpecDisc == InitDisc /\ [][NextDisc]_vars

(***************************************************************************)
(* Claims about discovery. What counts as a tool entry is stated here by   *)
(* name, independently of the scan: a directory with a Cargo.toml, or an   *)
(* executable file that is neither a setup script nor documentation nor a  *)
(* metadata file.                                                          *)
(***************************************************************************)
IsToolEntry(e) ==
    /\ ~e.err
    /\ \/ e.is_dir /\ e.has_cargo
       \/ ~e.is_dir /\ e.executable /\ e.name \in {NameFooSh, NameNetScan}

Discovered == last.op = "discover"

C14_Case ==
    /\ Discovered
    /\ \/ fs.status # "ok"
       \/ \A i \in 1..Len(fs.entries) : ~IsToolEntry(fs.entries[i])

\* C14: discovery over a tools directory that is missing, unreadable or holds
\* no valid tool entry yields an empty registry (is_empty() true, len() 0)
C14_DiscoveryNeverFails ==
    C14_Case => RegistryIsEmpty(tools) /\ RegistryLen(tools) = 0

\* a readable directory holding only non-tools has been scanned
C14_Witness ==
    /\ C14_Case
    /\ fs.status = "ok"
    /\ Len(fs.entries) >= 2
    /\ \E i \in 1..Len(fs.entries) : fs.entries[i].name = NameReadme
    /\ RegistryIsEmpty(tools)

\* the identifier each tool entry is expected under, and the display name
\* synthesized from it
ExpectedId(e) == IF e.name = NameNetScan THEN "net-scan_v2" ELSE "foo"

SynthesizedName(id) == IF id = "net-scan_v2" THEN "net scan v2" ELSE "foo"

\* the metadata file that belongs to a tool entry: tool.json inside a
\* directory, foo.json next to foo.sh
MetadataFileOf(e) ==
    IF e.is_dir THEN e.file
    ELSE IF e.name = NameFooSh
            /\ \E j \in 1..Len(fs.entries) : fs.entries[j].name = NameFooJson
    THEN LET m == fs.entries[CHOOSE j \in 1..Len(fs.entries) :
                                 fs.entries[j].name = NameFooJson]
         IN m.file
    ELSE NoFile

WellFormed(file) == file \in {MetaMinimal, MetaFull}

\* no later tool entry of the listing has the same identifier
LastForItsId(i) ==
    \A j \in (i + 1)..Len(fs.entries) :
        IsToolEntry(fs.entries[j]) => ExpectedId(fs.entries[j]) # ExpectedId(fs.entries[i])

C15_Case == Discovered /\ fs.status = "ok"

\* C15: an entry whose metadata file is missing, unreadable or malformed never
\* aborts the scan: it is registered with defaults synthesized from its
\* identifier, and every other valid entry is registered too
C15_BadMetadataNeverAborts ==
    C15_Case =>
        \A i \in 1..Len(fs.entries) :
            LET e == fs.entries[i]
                id == ExpectedId(e)
            IN IsToolEntry(e) =>
                 /\ id \in DOMAIN tools
                 /\ (LastForItsId(i) /\ WellFormed(MetadataFileOf(e))) =>
                        tools[id].name = "Foo Scanner"
                 /\ (LastForItsId(i) /\ ~WellFormed(MetadataFileOf(e))) =>
                        /\ tools[id].name = SynthesizedName(id)
                        /\ tools[id].description \in
                               {"MCP security tool: " \o id, "Security tool: " \o id}
                        /\ tools[id].category = "general"
                        /\ tools[id].tags = {}
                        /\ ~tools[id].requires_sudo
                        /\ tools[id].timeout_secs = None

\* a directory with a malformed tool.json was scanned before another tool, and
\* both are registered
C15_Witness ==
    /\ C15_Case
    /\ Len(fs.entries) >= 2
    /\ fs.entries[1] = Directory(NameFooMcp, TRUE, "none", MetaGarbage)
    /\ fs.entries[2].name = NameNetScan
    /\ DOMAIN tools = {"foo", "net-scan_v2"}
    /\ tools["foo"].name = "foo"

\* the command path expected of the descriptor a tool entry produces
ExpectedPath(e) ==
    IF ~e.is_dir THEN (IF e.name = NameFooSh THEN "tools/foo.sh"
                       ELSE "tools/net-scan_v2")
    ELSE IF e.built = "release" THEN "tools/foo-mcp/target/release/foo"
    ELSE IF e.built = "debug" THEN "tools/foo-mcp/target/debug/foo"
    ELSE "tools/foo-mcp"

ToolEntryIndexes == {i \in 1..Len(fs.entries) : IsToolEntry(fs.entries[i])}

\* C16: every key of the registry equals the id of the descriptor stored under
\* it; entries resolving to the same id leave exactly one descriptor, that of
\* the entry scanned last
C16_IdsUniqueLastWins ==
    Discovered =>
        /\ \A k \in DOMAIN tools : tools[k].id = k
        /\ RegistryLen(tools) =
               Cardinality({ExpectedId(fs.entries[i]) : i \in ToolEntryIndexes})
        /\ \A i \in ToolEntryIndexes :
               LastForItsId(i) =>
                   /\ ExpectedId(fs.entries[i]) \in DOMAIN tools
                   /\ tools[ExpectedId(fs.entries[i])].command_path =
                          ExpectedPath(fs.entries[i])

\* directory foo-mcp was scanned before file foo.sh: one descriptor "foo",
\* that of foo.sh
C16_Witness ==
    /\ Discovered
    /\ Len(fs.entries) >= 2
    /\ fs.entries[1].name = NameFooMcp /\ IsToolEntry(fs.entries[1])
    /\ fs.entries[2].name = NameFooSh /\ IsToolEntry(fs.entries[2])
    /\ DOMAIN tools = {"foo"}
    /\ tools["foo"].command_path = "tools/foo.sh"

DispatchCases ==
    {[tags |-> {TagAll}, tool_id |-> "portlist", outcome |-> o] :
         o \in {q \in QuietOutcomes :
                    q.status <= 1 /\ q.launch_error # "Permission denied (os error 13)"}}
    \cup {[tags |-> {DevTools}, tool_id |-> "portlist", outcome |-> NoOutcome]}

InitRun ==
    /\ fs = DirOutOfView
    /\ tools = EmptyRegistry
    /\ parallel_semaphore = NoSemaphore
    /\ last = NoCall
    /\ calls = [c \in Callers |-> IdleCall]
    /\ pipeline = NoPipeline
    /\ runs = NoRuns
    /\ observers \in [Observers -> {NewObserver(r) : r \in RunIds}]

\* submit(task, agent config) -> run id; the configuration sets the cycle
\* budget
Submit ==
    /\ \E i \in 1..Len(RunIdOrder), budget \in 1..MaxCycles :
         /\ ~runs[RunIdOrder[i]].submitted
         /\ \A j \in 1..(i - 1) : runs[RunIdOrder[j]].submitted
         /\ runs' = [runs EXCEPT ![RunIdOrder[i]] =
                [@ EXCEPT !.submitted = TRUE, !.budget = budget]]
    /\ UNCHANGED <<fs, tools, parallel_semaphore, last, calls, observers, pipeline>>

\* the scheduler picks the run up
StartRun(r) ==
    /\ runs[r].submitted
    /\ runs[r].phase = "not_started"
    /\ runs' = [runs EXCEPT ![r] =
           IF @.status = "Pending"
           THEN [@ EXCEPT !.status = "Running", !.phase = "boundary"]
           ELSE [@ EXCEPT !.phase = "stopped"]]
    /\ UNCHANGED <<fs, tools, parallel_semaphore, last, calls, observers, pipeline>>

\* the loop at a cycle boundary: it stops if the run was cancelled, and
\* otherwise starts a Reasoning step by calling the model
CycleBegin(r) ==
    /\ runs[r].phase = "boundary"
    /\ runs' = [runs EXCEPT ![r] =
           IF CancelObserved(@.status) THEN [@ EXCEPT !.phase = "stopped"]
           ELSE [@ EXCEPT !.phase = "reasoning", !.cycles = @ + 1]]
    /\ UNCHANGED <<fs, tools, parallel_semaphore, last, calls, observers, pipeline>>

\* the model call returns: a transport error ends the loop in Failure, a final
\* answer in Success; a tool call is dispatched unless the cycle budget is
\* spent, which ends the loop in Failure
ModelReturns(r) ==
    /\ runs[r].phase = "reasoning"
    /\ \E answer \in {"final", "tool_call", "transport_error"} :
         runs' = [runs EXCEPT ![r] =
             IF answer = "transport_error" THEN Complete(r, @, "Failed")
             ELSE LET thought ==
                      [Emit(r, @, "reasoning") EXCEPT
                           !.trace = Append(@, Thought(answer = "tool_call"))]
                  IN IF answer = "final" THEN Complete(r, thought, "Succeeded")
                     ELSE IF BudgetSpent(thought.cycles, thought.budget)
                     THEN Complete(r, thought, "Failed")
                     ELSE [thought EXCEPT !.phase = "dispatch"]]
    /\ UNCHANGED <<fs, tools, parallel_semaphore, last, calls, observers, pipeline>>

\* the dispatched tool returns: the capability view's run has produced a
\* result, which is recorded in the event log and observed
DispatchReturns(r) ==
    /\ runs[r].phase = "dispatch"
    /\ \E d \in DispatchCases :
         LET exec == TaggedRunSecurityToolExecute(
                         tools, d.tags,
                         [NoParams EXCEPT !.tool_id = JsonString(d.tool_id)],
                         d.outcome)
         IN runs' = [runs EXCEPT ![r] =
                AfterObservation(r, Emit(r, @, "tool_dispatch"), exec.result)]
    /\ UNCHANGED <<fs, tools, parallel_semaphore, last, calls, observers, pipeline>>

\* cancel(run id)
Cancel(r) ==
    /\ runs[r].submitted
    /\ runs' = [runs EXCEPT ![r] =
           IF @.status \in TerminalStatuses THEN @
           ELSE [Emit(r, @, "cancelled") EXCEPT
                     !.status = StatusOnCancel(runs[r].status)]]
    /\ UNCHANGED <<fs, tools, parallel_semaphore, last, calls, observers, pipeline>>

\* poll(run id, after sequence number, limit) -> (events, next cursor, status),
\* by an observer that passes the cursor of its previous poll
Poll(o) ==
    /\ runs[observers[o].run].submitted
    /\ \E limit \in 1..MaxLimit :
         LET r == observers[o].run
             after == observers[o].cursor
             page == PollWindow(runs[r].events, after, limit)
         IN observers' = [observers EXCEPT ![o] =
                [run |-> r, cursor |-> NextCursor(page, after),
                 seen |-> observers[o].seen \o page, polled |-> TRUE,
                 after |-> after, limit |-> limit, page |-> page,
                 status |-> runs[r].status]]
    /\ UNCHANGED <<fs, tools, parallel_semaphore, last, calls, runs, pipeline>>

NextRun ==
    \/ Submit
    \/ \E r \in RunIds :
         \/ StartRun(r) \/ CycleBegin(r) \/ ModelReturns(r)
         \/ DispatchReturns(r) \/ Cancel(r)
    \/ \E o \in Observers : Poll(o)

SpecRun == InitRun /\ [][NextRun]_vars

(***************************************************************************)
(* Claims about durable run tracking.                                      *)
(***************************************************************************)
AllowedTransitions ==
    {<<"Pending", "Running">>, <<"Pending", "Cancelled">>,
     <<"Running", "Succeeded">>, <<"Running", "Failed">>,
     <<"Running", "Cancelled">>}

KindsOf(events) == [i \in 1..Len(events) |-> events[i].kind]

SeqsOf(events) == [i \in 1..Len(events) |-> events[i].seq]

\* C18: a run's status only moves Pending -> Running -> Succeeded | Failed |
\* Cancelled, or Pending -> Cancelled; a terminal status never changes, also
\* when cancel races the loop's completion
C18_StatusMonotonic ==
    [][\A r \in RunIds :
           runs'[r].status # runs[r].status =>
               <<runs[r].status, runs'[r].status>> \in AllowedTransitions]_vars

\* cancel arrived during the model call that returned the final answer: the
\* loop has stopped and the run is still Cancelled
C18_Witness ==
    \E r \in RunIds :
        /\ runs[r].status = "Cancelled"
        /\ runs[r].phase = "stopped"
        /\ KindsOf(runs[r].events) = <<"cancelled", "reasoning">>

\* C19: within one run's log the sequence numbers are strictly increasing and
\* none repeats, also when the loop and cancel emit into the same run
C19_SeqStrictlyIncreasing ==
    \A r \in RunIds :
        \A i, j \in 1..Len(runs[r].events) :
            i < j => runs[r].events[i].seq < runs[r].events[j].seq

\* the loop recorded a dispatch result after cancel recorded the cancellation
C19_Witness ==
    \E r \in RunIds :
        KindsOf(runs[r].events) = <<"reasoning", "cancelled", "tool_dispatch">>

\* what an observer holds after a poll
C20_Reply(o) ==
    LET ob == observers[o]
        log == runs[ob.run].events
    IN ob.polled =>
        /\ \A i \in 1..Len(ob.page) :
               /\ ob.page[i].run = ob.run
               /\ ob.page[i].seq > ob.after
               /\ \E k \in 1..Len(log) : log[k] = ob.page[i]
        /\ \A i, j \in 1..Len(ob.page) : i < j => ob.page[i].seq < ob.page[j].seq
        /\ Len(ob.page) <= ob.limit
        /\ ob.cursor = IF ob.page = <<>> THEN ob.after
                        ELSE ob.page[Len(ob.page)].seq
        /\ Len(ob.seen) <= Len(log)
        /\ ob.seen = SubSeq(log, 1, Len(ob.seen))

EarlierRuns ==
    {[submitted |-> TRUE, status |-> "Failed",
      events |-> <<[run |-> RunIdOrder[1], seq |-> 1, kind |-> "terminated"]>>,
      next_seq |-> 2, phase |-> "stopped", budget |-> 1, cycles |-> 1,
      trace |-> <<>>, outcome |-> "Failure"],
     [submitted |-> TRUE, status |-> "Succeeded",
      events |-> <<[run |-> RunIdOrder[1], seq |-> 1, kind |-> "reasoning"],
                   [run |-> RunIdOrder[1], seq |-> 2, kind |-> "terminated"]>>,
      next_seq |-> 3, phase |-> "stopped", budget |-> 1, cycles |-> 1,
      trace |-> <<Thought(FALSE)>>, outcome |-> "Success"]}

InitLoop ==
    /\ fs = DirOutOfView
    /\ tools = [k \in ToolIds |-> DefaultDescriptor(k)]
    /\ parallel_semaphore = NoSemaphore
    /\ last = NoCall
    /\ calls = [c \in Callers |-> IdleCall]
    /\ pipeline = NoPipeline
    /\ runs \in {[NoRuns EXCEPT ![RunIdOrder[1]] = e] : e \in EarlierRuns}
    /\ observers = NoObservers

NextLoop ==
    \/ Submit
    \/ \E r \in RunIds :
         \/ StartRun(r) \/ CycleBegin(r) \/ ModelReturns(r)
         \/ DispatchReturns(r) \/ Cancel(r)

SpecLoop == InitLoop /\ [][NextLoop]_vars

\* the scheduler drives every submitted loop, the model call returns or fails,
\* and a dispatch ends when the child exits or times out
LoopFairness ==
    \A r \in RunIds :
        /\ WF_vars(StartRun(r))
        /\ WF_vars(CycleBegin(r))
        /\ WF_vars(ModelReturns(r))
        /\ WF_vars(DispatchReturns(r))

SpecLoopFair == SpecLoop /\ LoopFairness

(***************************************************************************)
(* Claims about the loop.                                                  *)
(***************************************************************************)
StepsOf(trace) == [i \in 1..Len(trace) |-> trace[i].step]

\* no Reasoning step starts in a run that is Cancelled
C21_NoReasoningAfterCancel ==
    \A r \in RunIds :
        runs[r].status = "Cancelled" =>
            /\ runs'[r].cycles = runs[r].cycles
            /\ runs'[r].phase = "reasoning" => runs[r].phase = "reasoning"

\* a dispatch ends only by recording its result
C21_DispatchRecorded ==
    \A r \in RunIds :
        (runs[r].phase = "dispatch" /\ runs'[r].phase # "dispatch") =>
            /\ Len(runs'[r].events) >= Len(runs[r].events) + 1
            /\ \E i \in (Len(runs[r].events) + 1)..Len(runs'[r].events) :
                   runs'[r].events[i].kind = "tool_dispatch"
            /\ Len(runs'[r].trace) = Len(runs[r].trace) + 1
            /\ runs'[r].trace[Len(runs'[r].trace)].step = "observation"

\* C21: cancellation is cooperative: once a run is Cancelled its loop starts no
\* further Reasoning step, while a dispatch in flight when the cancel arrives
\* runs to completion and its result is recorded
C21_CooperativeCancel ==
    /\ [][C21_NoReasoningAfterCancel]_vars
    /\ [][C21_DispatchRecorded]_vars
    /\ \A r \in RunIds :
           (runs[r].status = "Cancelled" /\ runs[r].phase = "dispatch")
               ~> (/\ runs[r].phase = "stopped"
                   /\ runs[r].trace # <<>>
                   /\ runs[r].trace[Len(runs[r].trace)].step = "observation")

\* cancel arrived during the first dispatch of a loop with budget for another
\* cycle: the result was recorded after the cancellation and the loop stopped
C21_Witness ==
    \E r \in RunIds :
        /\ runs[r].status = "Cancelled"
        /\ runs[r].phase = "stopped"
        /\ runs[r].cycles < runs[r].budget
        /\ KindsOf(runs[r].events) = <<"reasoning", "cancelled", "tool_dispatch">>
        /\ StepsOf(runs[r].trace) = <<"thought", "observation">>

Thoughts(trace) == SelectSeq(trace, LAMBDA s : s.step = "thought")

\* the trace ends with a thought that selects no tool: a final answer
EndsWithFinalAnswer(trace) ==
    /\ trace # <<>>
    /\ trace[Len(trace)].step = "thought"
    /\ ~trace[Len(trace)].action

C22_Terminal(r) ==
    LET run == runs[r] IN
    \* never more reasoning steps than the budget
    /\ run.submitted => run.cycles <= run.budget
    /\ Len(Thoughts(run.trace)) <= run.cycles
    \* a final answer ends the loop at once, in Success
    /\ \A i \in 1..Len(run.trace) :
           (run.trace[i].step = "thought" /\ ~run.trace[i].action) =>
               /\ i = Len(run.trace)
               /\ run.phase = "stopped"
               /\ run.outcome = "Success"
    /\ run.outcome = "Success" => EndsWithFinalAnswer(run.trace)
    \* Failure: the budget is spent on a tool call, or the last model call
    \* failed and left no thought
    /\ run.outcome = "Failure" =>
           \/ /\ run.cycles = run.budget
              /\ Len(Thoughts(run.trace)) = run.cycles
              /\ ~EndsWithFinalAnswer(run.trace)
           \/ Len(Thoughts(run.trace)) = run.cycles - 1
    \* a stopped loop is terminal, unless the run was cancelled first
    /\ run.phase = "stopped" =>
           run.outcome \in {"Success", "Failure"} \/ run.status = "Cancelled"
    /\ run.outcome # "none" => run.phase = "stopped"

C23_Case(r) ==
    /\ runs[r].budget = 1
    /\ runs[r].phase = "stopped"
    /\ runs[r].outcome # "none"
    /\ Len(Thoughts(runs[r].trace)) = runs[r].cycles
    /\ \A i \in 1..Len(runs[r].trace) :
           runs[r].trace[i].step = "thought" => runs[r].trace[i].action

\* C23: a loop with a cycle budget of 1 whose model never returns a final
\* answer ends in Failure with a trace of exactly one reasoning step and no
\* tool dispatch
C23_BudgetOneScenario ==
    \A r \in RunIds :
        C23_Case(r) =>
            /\ runs[r].outcome = "Failure"
            /\ StepsOf(runs[r].trace) = <<"thought">>
            /\ \A i \in 1..Len(runs[r].events) :
                   runs[r].events[i].kind # "tool_dispatch"

\* the scenario has happened on a run nobody cancelled
C23_Witness ==
    \E r \in RunIds :
        /\ C23_Case(r)
        /\ runs[r].status = "Failed"
        /\ KindsOf(runs[r].events) = <<"reasoning", "terminated">>

\* the step that ends a dispatch appends the result as an observation and
\* leaves the loop at a cycle boundary, unterminated, whatever the result says
C24_ObservedNotTerminal ==
    \A r \in RunIds :
        (runs[r].phase = "dispatch" /\ runs'[r].phase # "dispatch") =>
            /\ runs'[r].phase = "boundary"
            /\ runs'[r].outcome = "none"
            /\ runs'[r].status = runs[r].status
            /\ Len(runs'[r].trace) = Len(runs[r].trace) + 1
            /\ SubSeq(runs'[r].trace, 1, Len(runs[r].trace)) = runs[r].trace
            /\ runs'[r].trace[Len(runs'[r].trace)].step = "observation"
            /\ runs'[r].cycles < runs'[r].budget

\* from the boundary after an observation the loop goes to Reasoning, unless
\* the run was cancelled
C24_NextIsReasoning ==
    \A r \in RunIds :
        (runs[r].phase = "boundary" /\ runs'[r].phase # "boundary"
         /\ runs[r].status # "Cancelled") =>
            runs'[r].phase = "reasoning"

\* C24: a tool-execution failure (non-zero exit, launch failure, capability
\* rejection) never ends the loop by itself: the failed result is appended to
\* the trace as an observation and the loop goes on to its next Reasoning step
C24_ToolFailureNotTerminal ==
    /\ [][C24_ObservedNotTerminal]_vars
    /\ [][C24_NextIsReasoning]_vars

\* the loop is reasoning again after the view rejected the tool it had selected
C24_Witness ==
    \E r \in RunIds :
        /\ runs[r].phase = "reasoning"
        /\ runs[r].cycles = 2
        /\ Len(runs[r].trace) = 2
        /\ runs[r].trace[2].step = "observation"
        /\ ~runs[r].trace[2].success
        /\ runs[r].trace[2].error = NotAvailableMsg("portlist")

(***************************************************************************)
(* SpecPipe: main of swarm_security_agent.rs from the collector on.        *)
(***************************************************************************)
InitPipe ==
    /\ fs = DirOutOfView
    /\ tools = [k \in ToolIds |-> DefaultDescriptor(k)]
    /\ parallel_semaphore = NoSemaphore
    /\ last = NoCall
    /\ calls = [c \in Callers |-> IdleCall]
    /\ pipeline = NewPipeline
    /\ runs = NoRuns
    /\ observers = NoObservers

\* one stage: build the agent, build the prompt, run the agent's loop, keep the
\* output or the failure text in findings; a successful stage's output is also
\* written to a file. main returns early only when the build or the write
\* fails (the ? operator), never on the loop's Err
RunStage ==
    /\ pipeline.status = "running"
    /\ \E build_ok \in BOOLEAN, res \in LoopResults, write_ok \in BOOLEAN :
         LET stage == StageOrder[pipeline.pc]
             prompt == Prompt(stage, pipeline.findings)
             writes == stage # "coordinator" /\ res.ok
             p1 == [pipeline EXCEPT !.prompts[stage] = prompt,
                                    !.executed = @ \cup {stage}]
             p2 == IF res.ok
                   THEN [p1 EXCEPT
                            !.findings[stage] = res.text,
                            !.handoff_context =
                                IF stage = "coordinator" THEN @
                                ELSE Append(@, HandoffEntry(stage, res.text))]
                   ELSE [p1 EXCEPT
                            !.findings[stage] = FailureText(stage, res.text),
                            !.failed = @ \cup {stage}]
         IN /\ (~build_ok) => (res = CHOOSE x \in LoopResults : TRUE) /\ write_ok
            /\ (build_ok /\ ~writes) => write_ok
            /\ pipeline' =
                 IF ~build_ok
                 THEN [pipeline EXCEPT !.status = "build_error"]
                 ELSE IF writes /\ ~write_ok
                 THEN [p2 EXCEPT !.status = "write_error"]
                 ELSE IF pipeline.pc = Len(StageOrder)
                 THEN [p2 EXCEPT !.status = "done"]
                 ELSE [p2 EXCEPT !.pc = @ + 1]
    /\ UNCHANGED <<fs, tools, parallel_semaphore, last, calls, runs, observers>>

NextPipe == RunStage

SpecPipe == InitPipe /\ [][NextPipe]_vars

\* the failure text of a stage, as a later stage's prompt would carry it
CarriesFailureOf(prompt, stage) ==
    \E i \in 1..Len(prompt) :
        /\ prompt[i].from = stage
        /\ \E r \in LoopResults, n \in {1000, 1500, 6000, 8000} :
              /\ ~r.ok
              /\ prompt[i].text = TruncateStr(FailureText(stage, r.text), n)

LaterStages(stage) ==
    {StageOrder[i] : i \in (StageIndex(stage) + 1)..Len(StageOrder)}

\* the failure of a stage is kept as that stage's finding, main does not stop
\* at the failed stage, and a pipeline that ran to its end executed every
\* later stage
StageFailureRecorded ==
    \A s \in pipeline.failed :
        /\ \E r \in LoopResults :
              ~r.ok /\ pipeline.findings[s] = FailureText(s, r.text)
        /\ pipeline.status \in {"build_error", "write_error"}
              => StageOrder[pipeline.pc] # s
        /\ pipeline.status = "done" => LaterStages(s) \subseteq pipeline.executed

\* C25: the failure of one stage never aborts the pipeline: the failure text is
\* recorded for that stage, every later stage is still executed, and every
\* later stage that was executed received the recorded failure text as part of
\* its input.
C25_StageFailurePropagated ==
    /\ StageFailureRecorded
    /\ \A s \in pipeline.failed :
          \A t \in LaterStages(s) \cap pipeline.executed :
              CarriesFailureOf(pipeline.prompts[t], s)

====
